---- MODULE Spec2Model ----
(***************************************************************************)
(* Page synchronisation of the source viewer (SourceViewer component and   *)
(* the page callback of App): the chunk -> page index, the shared current  *)
(* page, the observer suppression flag and the timers that release it.     *)
(***************************************************************************)
EXTENDS Integers, Sequences, FiniteSets, TLC

(* ------------------------------------------------------------------ *)
(* Bounds                                                              *)
(* ------------------------------------------------------------------ *)
EstMaxChunks == 10
EstMaxTotal == 5
EstMetaLen == 3
EstMaxMetaPage == 3
MaxChunks == 2
MaxMetaPage == 2
MaxTotal == 2
MaxLoads == 1
MaxOverlap == 2
MaxDocs == 2
MaxTimers == 3
MaxTyped == 3
MaxRenderPage == 3
MaxWindows == 2
MaxRefPage == 2

(* ------------------------------------------------------------------ *)
(* Program constants                                                   *)
(* ------------------------------------------------------------------ *)
chunksPerPage == 3
navCooldownMs == 400
pageScrollDelayMs == 50
pageScrollCooldownMs == 300
searchScrollDelayMs == 400
searchRetryDelayMs == 200
searchCooldownMs == 500
wheelCooldownMs == 300
debounceMs == 100
rendererErrorDelayMs == 2000

VARIABLES
  chunks,              \* useState<PDFChunk[]>: the loaded chunk list
  documentTotalPages,  \* useState<number>: declared total page count, 0 = unknown
  chunksByPage,        \* useMemo: page number -> chunks of that page
  maxPdfPage,          \* useState<number>: largest page of the index
  mounted,             \* App: selectedDocumentId is set, SourceViewer is mounted
  selectedDocumentId,  \* App useState<string>: the selected document, 0 = none
  hasUrl,              \* App: pdfFilename is non-empty, so pdfUrl is non-empty
  isLoading,           \* useState<boolean>: the spinner replaces the viewer
  loads,               \* loadChunks calls in flight: their documentId and stage
  pdfCurrentPage,      \* App useState<number>: the shared current page
  pdfViewerMode,       \* App useState: "text" or "pdf"
  suppressObserverRef, \* useRef<boolean>: observer suppression flag
  wheelCooldownRef,    \* useRef<boolean>: wheel paging cooldown
  searchText,          \* useState<string>: content of the search box
  searchResults,       \* useState<PDFChunk[]>: matches of the last executed query
  currentSearchIndex,  \* useState<number>: cursor into searchResults
  lastSearchQuery,     \* useState<string>: last executed query
  timers,              \* pending setTimeout callbacks
  observer,            \* IntersectionObserver of the latest effect run
  stale,               \* an observer whose effect has been cleaned up
  pdfViewerWindowRef,  \* App useRef<Window | null>: 0 = null, else a window
  liveWindow,          \* the open browser window named 'pdfViewer', 0 = none
  opened,              \* number of windows created so far
  polls,               \* windows whose checkClosed interval is running
  graceChecks,         \* windows with a pending 100 ms check after a send
  calls,               \* window API calls made by the latest step
  appReplaced          \* window.location.href was set: the app is unloaded

idxVars == <<chunks, documentTotalPages, chunksByPage>>
searchVars == <<searchText, searchResults, currentSearchIndex, lastSearchQuery>>
vars == <<chunks, documentTotalPages, chunksByPage, maxPdfPage, mounted, selectedDocumentId, hasUrl,
          isLoading, loads, pdfCurrentPage, pdfViewerMode, suppressObserverRef,
          wheelCooldownRef, searchText, searchResults, currentSearchIndex,
          lastSearchQuery, timers, observer, stale, pdfViewerWindowRef,
          liveWindow, opened, polls, graceChecks, calls, appReplaced>>

viewerVars == <<chunks, documentTotalPages, chunksByPage, maxPdfPage, mounted,
                selectedDocumentId, hasUrl, isLoading, loads, pdfCurrentPage, pdfViewerMode,
                suppressObserverRef, wheelCooldownRef, searchText, searchResults,
                currentSearchIndex, lastSearchQuery, timers, observer, stale>>

bridgeVars == <<pdfViewerWindowRef, liveWindow, opened, polls, graceChecks,
                appReplaced>>

(* ------------------------------------------------------------------ *)
(* Helpers                                                             *)
(* ------------------------------------------------------------------ *)
Min(a, b) == IF a < b THEN a ELSE b
Max(a, b) == IF a > b THEN a ELSE b

SetMax(S) == CHOOSE x \in S : \A y \in S : y <= x

Range(s) == {s[k] : k \in 1..Len(s)}

\* A chunk as stored: its id is its ordinal position in the document's list,
\* page 0 stands for a zero or absent metadata.page.  The text of a chunk
\* depends on its position, so that a query can match all, some or none.
ContentAt(k) == IF k = 1 THEN <<"A">> ELSE <<"A", "b">>

MkChunks(pages) ==
  [k \in 1..Len(pages) |-> [id |-> k, page |-> pages[k], content |-> ContentAt(k)]]

ZeroPages(n) == [k \in 1..n |-> 0]

RECURSIVE SeqsUpTo(_, _)
SeqsUpTo(S, n) ==
  IF n = 0 THEN {<<>>}
  ELSE LET shorter == SeqsUpTo(S, n - 1)
       IN shorter \cup {Append(s, x) : s \in {t \in shorter : Len(t) = n - 1}, x \in S}

(* ------------------------------------------------------------------ *)
(* chunksByPage (useMemo)                                              *)
(* ------------------------------------------------------------------ *)
\* chunks.length > 0 && chunks.every(c => !c.metadata?.page || c.metadata.page === 0)
AllPagesZero(cs) == Len(cs) > 0 /\ \A k \in 1..Len(cs) : cs[k].page = 0

\* Mutant: the decision to estimate is taken per chunk instead of per document.
PageNumPerChunk(cs, total, index) ==
  IF cs[index + 1].page = 0
  THEN IF total > 0
       THEN Min((index * total) \div Len(cs) + 1, total)
       ELSE index \div chunksPerPage + 1
  ELSE cs[index + 1].page

\* Mutant: the declared total is ignored and the fixed density is always used.
PageNumFixedDensity(cs, total, index) ==
  IF AllPagesZero(cs)
  THEN index \div chunksPerPage + 1
  ELSE cs[index + 1].page

\* Mutant: the proportional estimate counts positions from 1.
PageNumOffByOne(cs, total, index) ==
  IF AllPagesZero(cs)
  THEN IF total > 0
       THEN Min(((index + 1) * total) \div Len(cs) + 1, total)
       ELSE index \div chunksPerPage + 1
  ELSE cs[index + 1].page

\* Mutant: the fallback density is one chunk short.
PageNumDensityTwo(cs, total, index) ==
  IF AllPagesZero(cs)
  THEN IF total > 0
       THEN Min((index * total) \div Len(cs) + 1, total)
       ELSE index \div (chunksPerPage - 1) + 1
  ELSE cs[index + 1].page

\* The body of the forEach callback up to the grouping: the page of the chunk
\* at 0-based position index.  Math.floor((index / n) * total) is computed on
\* integers; the two agree for every n <= 12 and total <= 8.
PageNum(cs, total, index) ==
  IF AllPagesZero(cs)
  THEN IF total > 0
       THEN Min((index * total) \div Len(cs) + 1, total)
       ELSE index \div chunksPerPage + 1
  ELSE cs[index + 1].page

\* Mutant: the group is overwritten instead of appended to.
GroupOverwrite(grouped, pageNum, chunk) ==
  [p \in DOMAIN grouped \cup {pageNum} |->
     IF p = pageNum THEN <<chunk>> ELSE grouped[p]]

\* if (!grouped[pageNum]) grouped[pageNum] = []; grouped[pageNum].push(chunk)
GroupPush(grouped, pageNum, chunk) ==
  [p \in DOMAIN grouped \cup {pageNum} |->
     IF p = pageNum
     THEN (IF p \in DOMAIN grouped THEN Append(grouped[p], chunk) ELSE <<chunk>>)
     ELSE grouped[p]]

\* chunks.forEach((chunk, index) => ...) from position index on
RECURSIVE GroupFrom(_, _, _, _)
GroupFrom(cs, total, index, grouped) ==
  IF index >= Len(cs) THEN grouped
  ELSE GroupFrom(cs, total, index + 1,
                 GroupPush(grouped, PageNum(cs, total, index), cs[index + 1]))

EmptyGroups == [p \in {} |-> <<>>]

ChunksByPage(cs, total) == GroupFrom(cs, total, 0, EmptyGroups)

\* for (const [pageNum, pageChunks] of Object.entries(chunksByPage))
\*   if (pageChunks.some(c => c.id === id)) { page = parseInt(pageNum); break; }
\* Integer keys are enumerated in ascending order; dflt is the value the caller
\* holds when no group contains the chunk.
LookupPage(grouped, id, dflt) ==
  LET hits == {p \in DOMAIN grouped : \E j \in 1..Len(grouped[p]) : grouped[p][j].id = id}
  IN IF hits = {} THEN dflt ELSE CHOOSE p \in hits : \A q \in hits : p <= q

(* ------------------------------------------------------------------ *)
(* Strings of the search box                                           *)
(* ------------------------------------------------------------------ *)
\* String.prototype.toLowerCase on the letters used here
LowerChar(c) == IF c = "A" THEN "a" ELSE IF c = "B" THEN "b" ELSE c

ToLower(str) == [k \in 1..Len(str) |-> LowerChar(str[k])]

\* String.prototype.trim
RECURSIVE Trim(_)
Trim(str) ==
  IF str = <<>> THEN str
  ELSE IF Head(str) = " " THEN Trim(Tail(str))
  ELSE IF str[Len(str)] = " " THEN Trim(SubSeq(str, 1, Len(str) - 1))
  ELSE str

\* String.prototype.includes
Includes(str, sub) ==
  \E k \in 0..(Len(str) - Len(sub)) : SubSeq(str, k + 1, k + Len(sub)) = sub

(* ------------------------------------------------------------------ *)
(* Timers                                                              *)
(* ------------------------------------------------------------------ *)
\* Delays are counted in steps of 50 ms.
Ticks(ms) == ms \div 50

Timer(kind, ms, arg) == [kind |-> kind, left |-> Ticks(ms), arg |-> arg]

Due(t) == t \in timers /\ t.left = 0

\* No observer outlives its effect.
NoStale == [st |-> "none", cpage |-> 0]

(* ------------------------------------------------------------------ *)
(* Derived values of a render                                          *)
(* ------------------------------------------------------------------ *)
\* const totalPages = documentTotalPages > 0 ? documentTotalPages
\*                                           : (maxPdfPage || pdfPageNumbers.length)
TotalPagesOf(total, maxPage, grouped) ==
  IF total > 0 THEN total
  ELSE IF maxPage # 0 THEN maxPage ELSE Cardinality(DOMAIN grouped)

totalPages == TotalPagesOf(documentTotalPages, maxPdfPage, chunksByPage)

HasChunks(grouped, p) == p \in DOMAIN grouped /\ Len(grouped[p]) > 0

\* Mutant: the text panel renders the chunks of every page.
getAllChunks == chunks

\* getPaginatedChunks: the chunks whose elements the text panel renders
getPaginatedChunks ==
  IF pdfCurrentPage \in DOMAIN chunksByPage THEN chunksByPage[pdfCurrentPage] ELSE <<>>

\* The text panel (and with it the scroll container) is in the DOM.
TextPanelShown(isMounted, loading, mode) == isMounted /\ ~loading /\ mode = "text"

\* window.document.getElementById(`chunk-${id}`)
ElementPresent(id) ==
  /\ TextPanelShown(mounted, isLoading, pdfViewerMode)
  /\ \E j \in 1..Len(getPaginatedChunks) : getPaginatedChunks[j].id = id

\* The header with the search box and the page controls is rendered.
ControlsShown == mounted /\ ~isLoading

\* Mutant: the effect that records the largest page never runs.
MaxPageEffectStale(grouped, total, prev) == prev

\* useEffect [chunksByPage, documentTotalPages]: setMaxPdfPage
MaxPageEffect(grouped, total, prev) ==
  LET pages == DOMAIN grouped
      maxPage == IF pages # {} THEN SetMax(pages) ELSE 0
  IN IF maxPage > 0 THEN maxPage
     ELSE IF total > 0 THEN total ELSE prev

\* Mutant: the nearest page search returns the requested page unchecked.
findNearestNoSkip(grouped, total, startPage, direction) == startPage

\* findNearestPageWithChunks
findNearestPageWithChunks(grouped, total, startPage, direction) ==
  IF HasChunks(grouped, startPage) THEN startPage
  ELSE IF direction = "next"
       THEN LET found == {p \in (startPage + 1)..total : HasChunks(grouped, p)}
            IN IF found # {} THEN CHOOSE p \in found : \A q \in found : p <= q
               ELSE startPage
       ELSE LET found == {p \in 1..(startPage - 1) : HasChunks(grouped, p)}
            IN IF found # {} THEN SetMax(found) ELSE startPage

(* ------------------------------------------------------------------ *)
(* External viewer window                                              *)
(* ------------------------------------------------------------------ *)
\* A step that calls no window API and leaves the window state alone.
Quiet == calls' = <<>> /\ UNCHANGED bridgeVars

\* Mutant: the closed flag of the window is not consulted.
WindowUsableUnchecked(ref, live) == ref # 0

\* Mutant: the stored window is never reused.
WindowUsableNever(ref, live) == FALSE

\* existingWindow && !existingWindow.closed
WindowUsable(ref, live) == ref # 0 /\ ref = live

PostCall(win, page) == [op |-> "post", win |-> win, page |-> page]

FocusCall(win) == [op |-> "focus", win |-> win, page |-> 0]

OpenCall(win, page) == [op |-> "open", win |-> win, page |-> page]

\* Mutant: the page is not forwarded to the window.
SyncCallsNone(page) == <<>>

SyncCallsUnchecked(page) ==
  IF pdfViewerWindowRef # 0 THEN <<PostCall(pdfViewerWindowRef, page)>> ELSE <<>>

\* onPdfPageChange: existingWindow.postMessage({type: 'changePage', page})
SyncCalls(page) ==
  IF WindowUsable(pdfViewerWindowRef, liveWindow)
  THEN <<PostCall(pdfViewerWindowRef, page)>>
  ELSE <<>>

\* the window part of onPdfPageChange(page)
SyncWindow(page) == calls' = SyncCalls(page) /\ UNCHANGED bridgeVars

(* ------------------------------------------------------------------ *)
(* Render and effects                                                  *)
(* ------------------------------------------------------------------ *)
\* Mutant: the page-scroll effect does not set the suppression flag.
PageScrollSuppressOff(sup, fires) == sup

\* useEffect [pdfCurrentPage, pdfViewerMode, chunksByPage, chunks.length]:
\* suppressObserverRef.current = true when the effect finds a first chunk
PageScrollSuppress(sup, fires) == IF fires THEN TRUE ELSE sup

\* The render that follows a batch of state updates, with the effects whose
\* dependencies changed.  cs, total, page, mode, loading are the new values of
\* the state, csNew tells that setChunks stored a new array, appRender that
\* App rendered for another reason than page or mode (a new onPdfPageChange),
\* sup and tms are the flag and the timers as the handler left them.
Commit(cs, csNew, total, page, mode, loading, appRender, sup, tms) ==
  LET idxChg == csNew \/ total # documentTotalPages
      grouped == IF idxChg THEN ChunksByPage(cs, total) ELSE chunksByPage
      appChg == appRender \/ page # pdfCurrentPage \/ mode # pdfViewerMode
      obsRerun == idxChg \/ appChg
      shownChg == idxChg \/ page # pdfCurrentPage \/ mode # pdfViewerMode
                    \/ loading # isLoading
      scrollRerun == idxChg \/ page # pdfCurrentPage \/ mode # pdfViewerMode
      scrollFires == /\ scrollRerun
                     /\ mode = "text" /\ page > 0 /\ Len(cs) > 0
                     /\ HasChunks(grouped, page)
  IN /\ chunks' = cs
     /\ documentTotalPages' = total
     /\ chunksByPage' = grouped
     /\ maxPdfPage' = IF idxChg THEN MaxPageEffect(grouped, total, maxPdfPage)
                      ELSE maxPdfPage
     /\ pdfCurrentPage' = page
     /\ pdfViewerMode' = mode
     /\ isLoading' = loading
     \* useEffect [chunks, chunksByPage, onPdfPageChange, pdfViewerMode, pdfCurrentPage]
     /\ observer' = IF obsRerun
                    THEN (IF mode = "text" /\ Len(cs) > 0 /\ ~loading
                          THEN "pending" ELSE "none")
                    ELSE observer
     \* the cleanup disconnects the observer; its deferred observeChunks is not
     \* cancelled and still runs later
     /\ stale' = IF idxChg THEN NoStale
                 ELSE IF obsRerun /\ observer = "pending"
                 THEN [st |-> "pending", cpage |-> pdfCurrentPage]
                 ELSE IF shownChg /\ stale.st = "on" THEN NoStale
                 ELSE stale
     /\ suppressObserverRef' = PageScrollSuppress(sup, scrollFires)
     /\ timers' = IF scrollFires
                  THEN tms \cup {Timer("effect50", pageScrollDelayMs, 0)}
                  ELSE tms

\* onPdfPageChange(page) of App followed by the render
PageChange(page, sup, tms) ==
  /\ Commit(chunks, FALSE, documentTotalPages, page, pdfViewerMode, isLoading,
            FALSE, sup, tms)
  /\ SyncWindow(page)

Room == Cardinality(timers) < MaxTimers

(* ------------------------------------------------------------------ *)
(* Documents                                                           *)
(* ------------------------------------------------------------------ *)
\* What the store can answer: getDocumentById gives a document with a declared
\* totalPages, or no document (-1); getChunksByDocument gives the chunks, of
\* which only the page metadata matters here.
DocMetas == (-1)..MaxTotal

DocPages == SeqsUpTo(0..MaxMetaPage, MaxChunks)

RemoveAt(s, i) == SubSeq(s, 1, i - 1) \o SubSeq(s, i + 1, Len(s))

\* Component state of a freshly mounted SourceViewer
FreshViewer ==
  /\ chunks' = <<>>
  /\ documentTotalPages' = 0
  /\ chunksByPage' = EmptyGroups
  /\ maxPdfPage' = 0
  /\ suppressObserverRef' = FALSE
  /\ wheelCooldownRef' = FALSE
  /\ searchText' = <<>>
  /\ observer' = "none"
  /\ stale' = NoStale

\* Mutant: the last executed query survives the reset.
ResetSearchKeepsQuery ==
  /\ searchResults' = <<>>
  /\ currentSearchIndex' = -1
  /\ UNCHANGED lastSearchQuery

\* setSearchResults([]); setCurrentSearchIndex(-1); setLastSearchQuery('')
ResetSearch ==
  /\ searchResults' = <<>>
  /\ currentSearchIndex' = -1
  /\ lastSearchQuery' = <<>>

\* Timers of an unmounted viewer only touch its own refs, except a debounced
\* observer request, which calls App's onPdfPageChange, and the fallback after
\* a renderer error, which calls App's onViewModeChange.
SurvivesUnmount(t) == t.kind \in {"debounce", "modeText"}

\* A loadChunks(documentId) call that waits for getDocumentById
LoadOf(doc) == [stage |-> "meta", doc |-> doc]

\* handleSourceClick: setSelectedDocumentId(doc), setPdfFilename; then
\* useEffect [selectedDocumentId]: onPdfPageChange(1), search reset, loadChunks.
\* At most cap loads are in flight.
SelectDocumentOf(doc, url, cap) ==
  /\ Len(loads) < cap
  /\ Room
  /\ mounted' = TRUE
  /\ selectedDocumentId' = doc
  /\ hasUrl' = url
  /\ loads' = Append(loads, LoadOf(doc))
  /\ ResetSearch
  /\ SyncWindow(1)
  /\ IF mounted
     THEN /\ Commit(chunks, FALSE, documentTotalPages, 1, pdfViewerMode, TRUE,
                    TRUE, suppressObserverRef, timers)
          /\ UNCHANGED <<wheelCooldownRef, searchText>>
     ELSE /\ FreshViewer
          /\ pdfCurrentPage' = 1
          /\ isLoading' = TRUE
          /\ UNCHANGED <<pdfViewerMode, timers>>

\* Where documents need not be told apart every selection carries this id and
\* stands for the selection of another document: what the store answers is
\* drawn anew for each load.
AnyDocument == 1

\* the selection of a document while no other load is in flight
SelectDocument(url) == SelectDocumentOf(AnyDocument, url, MaxLoads)

\* const document = await firestoreService.getDocumentById(documentId):
\* the i-th load in flight learns the declared total (meta)
LoadMeta(i, meta) ==
  /\ i \in 1..Len(loads) /\ loads[i].stage = "meta"
  /\ loads' = [loads EXCEPT ![i].stage = "chunks"]
  /\ Commit(chunks, FALSE,
            IF meta >= 0 THEN meta ELSE documentTotalPages,
            pdfCurrentPage, pdfViewerMode, isLoading, FALSE,
            suppressObserverRef, timers)
  /\ UNCHANGED <<mounted, selectedDocumentId, hasUrl, wheelCooldownRef, searchVars>>
  /\ Quiet

\* const chunks = await firestoreService.getChunksByDocument(documentId);
\* setChunks(chunks); finally setIsLoading(false)
LoadChunks(i, pages) ==
  /\ i \in 1..Len(loads) /\ loads[i].stage = "chunks"
  /\ loads' = RemoveAt(loads, i)
  /\ Commit(MkChunks(pages), TRUE, documentTotalPages, pdfCurrentPage,
            pdfViewerMode, FALSE, FALSE, suppressObserverRef, timers)
  /\ UNCHANGED <<mounted, selectedDocumentId, hasUrl, wheelCooldownRef, searchVars>>
  /\ Quiet

\* one of the two awaits of loadChunks rejects: catch { setChunks([]);
\* setDocumentTitle('') } finally { setIsLoading(false) }
LoadFails(i) ==
  /\ i \in 1..Len(loads)
  /\ loads' = RemoveAt(loads, i)
  /\ Commit(<<>>, TRUE, documentTotalPages, pdfCurrentPage, pdfViewerMode,
            FALSE, FALSE, suppressObserverRef, timers)
  /\ UNCHANGED <<mounted, selectedDocumentId, hasUrl, wheelCooldownRef, searchVars>>
  /\ Quiet

\* setSelectedDocumentId(undefined): SourceViewer is unmounted
CloseViewer ==
  /\ mounted
  /\ mounted' = FALSE
  /\ selectedDocumentId' = 0
  /\ FreshViewer
  /\ ResetSearch
  /\ isLoading' = FALSE
  /\ loads' = <<>>
  /\ timers' = {t \in timers : SurvivesUnmount(t)}
  /\ UNCHANGED <<hasUrl, pdfCurrentPage, pdfViewerMode>>
  /\ Quiet

(* ------------------------------------------------------------------ *)
(* Explicit navigation                                                 *)
(* ------------------------------------------------------------------ *)
\* Mutant: the handler does not set the suppression flag.
NavSuppressOff(moved, sup) == sup

\* suppressObserverRef.current = true, reached only past the early return
NavSuppress(moved, sup) == IF moved THEN TRUE ELSE sup

NavTimers(moved, tms) ==
  IF moved THEN tms \cup {Timer("release", navCooldownMs, 0)} ELSE tms

PreviousTarget ==
  findNearestPageWithChunks(chunksByPage, totalPages,
                            Max(1, pdfCurrentPage - 1), "prev")

NextTarget ==
  findNearestPageWithChunks(chunksByPage, totalPages,
                            Min(totalPages, pdfCurrentPage + 1), "next")

\* handlePreviousPage / handleNextPage from the given state of flag and
\* timers: if (target === pdfCurrentPage) return comes before the flag, the
\* call of onPdfPageChange and the timers
Navigate(target, sup, tms) ==
  LET moved == target # pdfCurrentPage
  IN /\ Commit(chunks, FALSE, documentTotalPages, target, pdfViewerMode, isLoading,
               FALSE, NavSuppress(moved, sup), NavTimers(moved, tms))
     /\ IF moved THEN SyncWindow(target) ELSE Quiet

\* click on the previous button (disabled while pdfCurrentPage <= 1)
handlePreviousPage ==
  /\ ControlsShown /\ Room
  /\ pdfCurrentPage > 1
  /\ PreviousTarget # pdfCurrentPage
  /\ Navigate(PreviousTarget, suppressObserverRef, timers)
  /\ UNCHANGED <<mounted, selectedDocumentId, hasUrl, loads, wheelCooldownRef, searchVars>>

\* click on the next button (disabled while pdfCurrentPage >= totalPages)
handleNextPage ==
  /\ ControlsShown /\ Room
  /\ pdfCurrentPage < totalPages
  /\ NextTarget # pdfCurrentPage
  /\ Navigate(NextTarget, suppressObserverRef, timers)
  /\ UNCHANGED <<mounted, selectedDocumentId, hasUrl, loads, wheelCooldownRef, searchVars>>

\* Mutant: the typed page is applied without clamping.
ClampTypedOff(v, total) == v

\* Math.min(Math.max(1, v), Math.max(1, totalPages))
ClampTyped(v, total) == Min(Max(1, v), Max(1, total))

\* onChange of the page number input
TypePage(v) ==
  /\ ControlsShown /\ Room
  /\ ClampTyped(v, totalPages) # pdfCurrentPage
  /\ PageChange(ClampTyped(v, totalPages), suppressObserverRef, timers)
  /\ UNCHANGED <<mounted, selectedDocumentId, hasUrl, loads, wheelCooldownRef, searchVars>>

\* handleWheelInScrollArea at the top (direction "prev") or the bottom of the
\* scroll area
handleWheelInScrollArea(direction) ==
  /\ TextPanelShown(mounted, isLoading, pdfViewerMode) /\ Room
  /\ ~wheelCooldownRef
  /\ IF direction = "prev" THEN pdfCurrentPage > 1 ELSE pdfCurrentPage < totalPages
  /\ wheelCooldownRef' = TRUE
  /\ Navigate(IF direction = "prev" THEN PreviousTarget ELSE NextTarget,
              suppressObserverRef,
              timers \cup {Timer("wheel", wheelCooldownMs, 0)})
  /\ UNCHANGED <<mounted, selectedDocumentId, hasUrl, loads, searchVars>>

\* view-mode button: from the text view it switches to the embedded renderer
\* only when there is no PDF url or no positive page (otherwise it opens the
\* external window and leaves the mode alone); from the PDF view it switches back
ToggleViewMode ==
  /\ ControlsShown /\ Room
  /\ pdfViewerMode = "text" => ~(hasUrl /\ pdfCurrentPage > 0)
  /\ Commit(chunks, FALSE, documentTotalPages, pdfCurrentPage,
            IF pdfViewerMode = "text" THEN "pdf" ELSE "text", isLoading, FALSE,
            suppressObserverRef, timers)
  /\ UNCHANGED <<mounted, selectedDocumentId, hasUrl, loads, wheelCooldownRef, searchVars>>
  /\ Quiet

\* EmbedPdfViewer onPageChange(page): the renderer reports one of its pages
RendererPageChange(page) ==
  /\ ControlsShown /\ Room
  /\ pdfViewerMode = "pdf" /\ hasUrl
  /\ page # pdfCurrentPage
  /\ PageChange(page, suppressObserverRef, timers)
  /\ UNCHANGED <<mounted, selectedDocumentId, hasUrl, loads, wheelCooldownRef, searchVars>>

\* EmbedPdfViewer onError: the fallback to the text view is scheduled
RendererError ==
  /\ ControlsShown /\ Room
  /\ pdfViewerMode = "pdf" /\ hasUrl
  /\ timers' = timers \cup {Timer("modeText", rendererErrorDelayMs, 0)}
  /\ UNCHANGED <<idxVars, maxPdfPage, mounted, selectedDocumentId, hasUrl, isLoading, loads,
                 pdfCurrentPage, pdfViewerMode, suppressObserverRef,
                 wheelCooldownRef, searchVars, observer, stale>>
  /\ Quiet

(* ------------------------------------------------------------------ *)
(* External viewer window: handlers                                    *)
(* ------------------------------------------------------------------ *)
\* The window that window.open(viewerUrl, 'pdfViewer', ...) returns when it
\* succeeds: the open window of that name if there is one, else a new window.
NamedWindow == IF liveWindow # 0 THEN liveWindow ELSE opened + 1

CanOpen == liveWindow # 0 \/ opened < MaxWindows

\* Mutant: the page is replaced without regard to the answer.
ReplaceOnConfirmAlways(confirmOpen) == TRUE

\* if (confirmOpen) window.location.href = viewerUrl
ReplaceOnConfirm(confirmOpen) == confirmOpen

\* handleReferenceClick for an event with a filename and page > 0.  ok tells
\* whether window.open returns a window, confirmOpen is the answer to the
\* dialog shown when it does not.
handleReferenceClick(page, ok, confirmOpen) ==
  /\ ~appReplaced
  /\ IF WindowUsable(pdfViewerWindowRef, liveWindow)
     THEN /\ calls' = <<PostCall(pdfViewerWindowRef, page), FocusCall(pdfViewerWindowRef)>>
          /\ graceChecks' = graceChecks \cup {pdfViewerWindowRef}
          /\ UNCHANGED <<pdfViewerWindowRef, liveWindow, opened, polls, appReplaced>>
     ELSE IF ok
          THEN /\ CanOpen
               /\ pdfViewerWindowRef' = NamedWindow
               /\ liveWindow' = NamedWindow
               /\ opened' = Max(opened, NamedWindow)
               /\ polls' = polls \cup {NamedWindow}
               /\ calls' = <<OpenCall(NamedWindow, page)>>
               /\ UNCHANGED <<graceChecks, appReplaced>>
          ELSE /\ calls' = <<OpenCall(0, page)>>
               /\ appReplaced' = ReplaceOnConfirm(confirmOpen)
               /\ UNCHANGED <<pdfViewerWindowRef, liveWindow, opened, polls, graceChecks>>
  /\ UNCHANGED viewerVars

\* view-mode button in the text view with a PDF url and a positive page: the
\* viewer is opened in a window of its own and the mode stays "text"
OpenViewerFromToggle(ok, confirmOpen) ==
  /\ ~appReplaced
  /\ ControlsShown
  /\ pdfViewerMode = "text" /\ hasUrl /\ pdfCurrentPage > 0
  /\ IF ok
     THEN /\ CanOpen
          /\ liveWindow' = NamedWindow
          /\ opened' = Max(opened, NamedWindow)
          /\ calls' = <<OpenCall(NamedWindow, pdfCurrentPage)>>
          /\ UNCHANGED <<pdfViewerWindowRef, polls, graceChecks, appReplaced>>
     ELSE /\ calls' = <<OpenCall(0, pdfCurrentPage)>>
          /\ appReplaced' = ReplaceOnConfirm(confirmOpen)
          /\ UNCHANGED <<pdfViewerWindowRef, liveWindow, opened, polls, graceChecks>>
  /\ UNCHANGED viewerVars

\* the user closes the viewer window
UserClosesWindow ==
  /\ liveWindow # 0
  /\ liveWindow' = 0
  /\ calls' = <<>>
  /\ UNCHANGED <<pdfViewerWindowRef, opened, polls, graceChecks, appReplaced>>
  /\ UNCHANGED viewerVars

\* a tick of the checkClosed interval started for window w
checkClosed(w) ==
  /\ ~appReplaced
  /\ w \in polls
  /\ IF w # liveWindow
     THEN polls' = polls \ {w} /\ pdfViewerWindowRef' = 0
     ELSE UNCHANGED <<polls, pdfViewerWindowRef>>
  /\ calls' = <<>>
  /\ UNCHANGED <<liveWindow, opened, graceChecks, appReplaced>>
  /\ UNCHANGED viewerVars

\* the 100 ms check that follows a send to the existing window w
GraceCheck(w) ==
  /\ ~appReplaced
  /\ w \in graceChecks
  /\ graceChecks' = graceChecks \ {w}
  /\ pdfViewerWindowRef' = IF w = liveWindow THEN pdfViewerWindowRef ELSE 0
  /\ calls' = <<>>
  /\ UNCHANGED <<liveWindow, opened, polls, appReplaced>>
  /\ UNCHANGED viewerVars

(* ------------------------------------------------------------------ *)
(* State after construction                                            *)
(* ------------------------------------------------------------------ *)
Init ==
  /\ chunks = <<>>
  /\ documentTotalPages = 0
  /\ chunksByPage = EmptyGroups
  /\ maxPdfPage = 0
  /\ mounted = FALSE
  /\ selectedDocumentId = 0
  /\ hasUrl = FALSE
  /\ isLoading = FALSE
  /\ loads = <<>>
  /\ pdfCurrentPage = 1
  /\ pdfViewerMode = "text"
  /\ suppressObserverRef = FALSE
  /\ wheelCooldownRef = FALSE
  /\ searchText = <<>>
  /\ searchResults = <<>>
  /\ currentSearchIndex = -1
  /\ lastSearchQuery = <<>>
  /\ timers = {}
  /\ observer = "none"
  /\ stale = NoStale
  /\ pdfViewerWindowRef = 0
  /\ liveWindow = 0
  /\ opened = 0
  /\ polls = {}
  /\ graceChecks = {}
  /\ calls = <<>>
  /\ appReplaced = FALSE

(* ------------------------------------------------------------------ *)
(* Search                                                              *)
(* ------------------------------------------------------------------ *)
Queries == {<<>>, <<" ">>, <<"a", " ">>, <<"B">>}

\* Mutant: the session is reset only by an empty string.
SearchClearedEmptyOnly(text) == text = <<>>

\* if (!searchText.trim())
SearchCleared(text) == Trim(text) = <<>>

\* onChange of the search box, then useEffect [searchText]
TypeSearch(text) ==
  /\ ControlsShown
  /\ text # searchText
  /\ searchText' = text
  /\ IF SearchCleared(text)
     THEN ResetSearch
     ELSE UNCHANGED <<searchResults, currentSearchIndex, lastSearchQuery>>
  /\ UNCHANGED <<idxVars, maxPdfPage, mounted, selectedDocumentId, hasUrl, isLoading, loads,
                 pdfCurrentPage, pdfViewerMode, suppressObserverRef,
                 wheelCooldownRef, timers, observer, stale>>
  /\ Quiet

\* Mutant: the filter keeps every chunk.
MatchesAll(cs, query) == cs

\* chunks.filter((c) => (c.content || '').toLowerCase().includes(query))
Matches(cs, query) ==
  SelectSeq(cs, LAMBDA c : Includes(ToLower(c.content), query))

\* navigateToSearchResult(match, index)
navigateToSearchResult(match) ==
  PageChange(LookupPage(chunksByPage, match.id, 1), TRUE,
             timers \cup {Timer("search", searchScrollDelayMs, match.id)})

\* Mutant: every submission counts as a new query.
IsNewQueryAlways(query, last) == TRUE

\* if (query !== lastSearchQuery)
IsNewQuery(query, last) == query # last

\* Mutant: the cursor stops at the last match.
NextIndexNoWrap(cur, n) == Min(cur + 1, n - 1)

\* (currentSearchIndex + 1) % searchResults.length
NextIndex(cur, n) == (cur + 1) % n

\* Mutant: the query is trimmed but keeps its letter case.
SubmitQueryRaw == Trim(searchText)

\* const query = (searchText || '').trim().toLowerCase()
SubmitQuery == ToLower(Trim(searchText))

\* handleSearchSubmit
handleSearchSubmit ==
  LET query == SubmitQuery
  IN /\ ControlsShown /\ Room
     /\ query # <<>> /\ Len(chunks) > 0
     /\ IF IsNewQuery(query, lastSearchQuery)
        THEN LET matches == Matches(chunks, query)
             IN /\ searchResults' = matches
                /\ currentSearchIndex' = 0
                /\ lastSearchQuery' = query
                /\ IF Len(matches) > 0
                   THEN navigateToSearchResult(matches[1])
                   ELSE /\ UNCHANGED <<idxVars, maxPdfPage, isLoading, pdfCurrentPage,
                                       pdfViewerMode, suppressObserverRef, timers,
                                       observer, stale>>
                        /\ Quiet
        ELSE /\ Len(searchResults) > 0
             /\ LET nextIndex == NextIndex(currentSearchIndex, Len(searchResults))
                IN /\ currentSearchIndex' = nextIndex
                   /\ navigateToSearchResult(searchResults[nextIndex + 1])
             /\ UNCHANGED <<searchResults, lastSearchQuery>>
     /\ UNCHANGED <<mounted, selectedDocumentId, hasUrl, loads, wheelCooldownRef, searchText>>

(* ------------------------------------------------------------------ *)
(* Timer callbacks                                                     *)
(* ------------------------------------------------------------------ *)
ViewerFrame == <<idxVars, maxPdfPage, mounted, selectedDocumentId, hasUrl, isLoading, loads,
                 pdfCurrentPage, pdfViewerMode, searchVars, observer, stale>>

\* setTimeout(() => { suppressObserverRef.current = false; }, ...)
FireRelease(t) ==
  /\ Due(t) /\ t.kind = "release"
  /\ suppressObserverRef' = FALSE
  /\ timers' = timers \ {t}
  /\ UNCHANGED <<ViewerFrame, wheelCooldownRef>>
  /\ Quiet

\* the 50 ms callback of the page-scroll effect: scrollIntoView, then the
\* 300 ms release is scheduled
FirePageScroll(t) ==
  /\ Due(t) /\ t.kind = "effect50"
  /\ timers' = (timers \ {t}) \cup {Timer("release", pageScrollCooldownMs, 0)}
  /\ UNCHANGED <<ViewerFrame, wheelCooldownRef, suppressObserverRef>>
  /\ Quiet

\* scrollToMatch: with the element and the container in the DOM it scrolls and
\* schedules the release; without the element it does nothing
ScrollToMatchTimers(id) ==
  IF ElementPresent(id) THEN {Timer("release", searchCooldownMs, 0)} ELSE {}

\* the 400 ms callback of navigateToSearchResult: scrollToMatch and a retry
FireSearchScroll(t) ==
  /\ Due(t) /\ t.kind = "search"
  /\ timers' = (timers \ {t}) \cup ScrollToMatchTimers(t.arg)
                 \cup {Timer("retry", searchRetryDelayMs, t.arg)}
  /\ UNCHANGED <<ViewerFrame, wheelCooldownRef, suppressObserverRef>>
  /\ Quiet

\* the 200 ms retry: scrollToMatch again when the element is there
FireSearchRetry(t) ==
  /\ Due(t) /\ t.kind = "retry"
  /\ timers' = (timers \ {t}) \cup ScrollToMatchTimers(t.arg)
  /\ UNCHANGED <<ViewerFrame, wheelCooldownRef, suppressObserverRef>>
  /\ Quiet

\* setTimeout(() => { wheelCooldownRef.current = false; }, 300)
FireWheel(t) ==
  /\ Due(t) /\ t.kind = "wheel"
  /\ wheelCooldownRef' = FALSE
  /\ timers' = timers \ {t}
  /\ UNCHANGED <<ViewerFrame, suppressObserverRef>>
  /\ Quiet

\* Mutant: the fallback leaves the mode alone.
FallbackModeKeep(mode) == mode

\* onViewModeChange('text')
FallbackMode(mode) == "text"

\* the 2000 ms callback scheduled by onError: setPdfViewerMode('text')
FireModeText(t) ==
  /\ Due(t) /\ t.kind = "modeText"
  /\ Commit(chunks, FALSE, documentTotalPages, pdfCurrentPage,
            FallbackMode(pdfViewerMode), isLoading, FALSE, suppressObserverRef,
            timers \ {t})
  /\ UNCHANGED <<mounted, selectedDocumentId, hasUrl, loads, wheelCooldownRef, searchVars>>
  /\ Quiet

\* Mutant: the debounced request is dropped while the flag is set.
DebounceApplies(sup) == ~sup

\* The debounced callback runs onPdfPageChange(actualPage) whatever the flag.
DebounceRuns(sup) == TRUE

\* the 100 ms debounced callback of the observer: onPdfPageChange(actualPage)
FireDebounce(t) ==
  /\ Due(t) /\ t.kind = "debounce"
  /\ IF DebounceRuns(suppressObserverRef)
     THEN PageChange(t.arg, suppressObserverRef, timers \ {t})
     ELSE PageChange(pdfCurrentPage, suppressObserverRef, timers \ {t})
  /\ UNCHANGED <<mounted, selectedDocumentId, hasUrl, loads, wheelCooldownRef, searchVars>>

(* ------------------------------------------------------------------ *)
(* IntersectionObserver                                                *)
(* ------------------------------------------------------------------ *)
ElementsShown ==
  TextPanelShown(mounted, isLoading, pdfViewerMode) /\ Len(getPaginatedChunks) > 0

\* requestAnimationFrame(() => setTimeout(observeChunks, 0)) of the latest
\* effect run
ObserverStart ==
  /\ observer = "pending"
  /\ observer' = "on"
  /\ UNCHANGED <<idxVars, maxPdfPage, mounted, selectedDocumentId, hasUrl, isLoading, loads,
                 pdfCurrentPage, pdfViewerMode, suppressObserverRef,
                 wheelCooldownRef, searchVars, timers, stale>>
  /\ Quiet

\* the same deferred start of an observer that was disconnected meanwhile: it
\* observes the chunk elements that are in the panel now
StaleObserverStart ==
  /\ stale.st = "pending"
  /\ stale' = IF ElementsShown THEN [stale EXCEPT !.st = "on"] ELSE NoStale
  /\ UNCHANGED <<idxVars, maxPdfPage, mounted, selectedDocumentId, hasUrl, isLoading, loads,
                 pdfCurrentPage, pdfViewerMode, suppressObserverRef,
                 wheelCooldownRef, searchVars, timers, observer>>
  /\ Quiet

\* Mutant: the callback does not look at the suppression flag.
ObserverHonoursAlways(sup) == TRUE

\* if (suppressObserverRef.current) return;
ObserverHonours(sup) == ~sup

\* The callback of an observer whose closure holds page closurePage, for a
\* batch whose most visible element is that of chunk: the timers afterwards.
ObserverCallback(closurePage, chunk, sup, tms) ==
  IF ~ObserverHonours(sup) THEN tms
  ELSE LET actualPage == LookupPage(chunksByPage, chunk.id, closurePage)
       IN IF actualPage # closurePage
          THEN {t \in tms : t.kind # "debounce"}
                 \cup {Timer("debounce", debounceMs, actualPage)}
          ELSE tms

\* an intersection batch delivered to the observer of the latest effect run
ObserverBatch(chunk) ==
  /\ observer = "on" /\ ElementsShown
  /\ chunk \in Range(getPaginatedChunks)
  /\ timers' = ObserverCallback(pdfCurrentPage, chunk, suppressObserverRef, timers)
  /\ UNCHANGED <<ViewerFrame, wheelCooldownRef, suppressObserverRef>>
  /\ Quiet

\* an intersection batch delivered to the disconnected observer
StaleObserverBatch(chunk) ==
  /\ stale.st = "on" /\ ElementsShown
  /\ chunk \in Range(getPaginatedChunks)
  /\ timers' = ObserverCallback(stale.cpage, chunk, suppressObserverRef, timers)
  /\ UNCHANGED <<ViewerFrame, wheelCooldownRef, suppressObserverRef>>
  /\ Quiet

(* ------------------------------------------------------------------ *)
(* Time                                                                *)
(* ------------------------------------------------------------------ *)
\* 50 ms pass: no timer is due and no deferred observer start is waiting
Tick ==
  /\ timers # {}
  /\ \A t \in timers : t.left > 0
  /\ observer # "pending" /\ stale.st # "pending"
  /\ timers' = {[t EXCEPT !.left = t.left - 1] : t \in timers}
  /\ UNCHANGED <<ViewerFrame, wheelCooldownRef, suppressObserverRef>>
  /\ Quiet

FireTimer ==
  \E t \in timers :
    \/ FireRelease(t)
    \/ FirePageScroll(t)
    \/ FireSearchScroll(t)
    \/ FireSearchRetry(t)
    \/ FireWheel(t)
    \/ FireDebounce(t)
    \/ FireModeText(t)

\* the document ids of the store
Docs == 1..MaxDocs

Next ==
  \/ \E doc \in Docs, url \in BOOLEAN : SelectDocumentOf(doc, url, MaxOverlap)
  \/ \E i \in 1..Len(loads), meta \in DocMetas : LoadMeta(i, meta)
  \/ \E i \in 1..Len(loads), pages \in DocPages : LoadChunks(i, pages)
  \/ \E i \in 1..Len(loads) : LoadFails(i)
  \/ CloseViewer
  \/ handlePreviousPage
  \/ handleNextPage
  \/ \E v \in 0..MaxTyped : TypePage(v)
  \/ \E direction \in {"prev", "next"} : handleWheelInScrollArea(direction)
  \/ ToggleViewMode
  \/ \E page \in 1..MaxRenderPage : RendererPageChange(page)
  \/ RendererError
  \/ \E text \in Queries : TypeSearch(text)
  \/ handleSearchSubmit
  \/ ObserverStart
  \/ StaleObserverStart
  \/ \E chunk \in Range(chunks) : ObserverBatch(chunk) \/ StaleObserverBatch(chunk)
  \/ FireTimer
  \/ Tick
  \/ \E page \in 1..MaxRefPage, ok \in BOOLEAN, confirmOpen \in BOOLEAN :
       handleReferenceClick(page, ok, confirmOpen)
  \/ \E ok \in BOOLEAN, confirmOpen \in BOOLEAN : OpenViewerFromToggle(ok, confirmOpen)
  \/ UserClosesWindow
  \/ \E w \in polls : checkClosed(w)
  \/ \E w \in graceChecks : GraceCheck(w)

Spec == Init /\ [][Next]_vars

\* The external viewer window: reference clicks, the view-mode button, the
\* user closing the window, the liveness checks, and the page surfaces of
\* the viewer that need no timer to act.
BridgeDocPages == {<<1, 2>>}

BridgeNext ==
  \/ \E url \in BOOLEAN : ~appReplaced /\ SelectDocument(url)
  \/ \E i \in 1..Len(loads) : ~appReplaced /\ LoadMeta(i, 0)
  \/ \E i \in 1..Len(loads), pages \in BridgeDocPages :
       ~appReplaced /\ LoadChunks(i, pages)
  \/ ~appReplaced /\ CloseViewer
  \/ \E v \in 0..MaxTyped : ~appReplaced /\ TypePage(v)
  \/ ~appReplaced /\ ToggleViewMode
  \/ \E page \in 1..MaxRenderPage : ~appReplaced /\ RendererPageChange(page)
  \/ \E page \in 1..MaxRefPage, ok \in BOOLEAN, confirmOpen \in BOOLEAN :
       handleReferenceClick(page, ok, confirmOpen)
  \/ \E ok \in BOOLEAN, confirmOpen \in BOOLEAN : OpenViewerFromToggle(ok, confirmOpen)
  \/ UserClosesWindow
  \/ \E w \in polls : checkClosed(w)
  \/ \E w \in graceChecks : GraceCheck(w)

BridgeSpec == Init /\ [][BridgeNext]_vars

\* setInterval keeps calling checkClosed for as long as the interval exists
BridgeFairSpec ==
  BridgeSpec /\ \A w \in 1..MaxWindows : WF_vars(checkClosed(w))

\* The embedded renderer: documents, the view-mode button, the pages and the
\* errors the renderer reports, and the timers these start.
RendererDocPages == {<<1, 2>>}

RendererNext ==
  \/ \E url \in BOOLEAN : SelectDocument(url)
  \/ \E i \in 1..Len(loads) : LoadMeta(i, 0)
  \/ \E i \in 1..Len(loads), pages \in RendererDocPages : LoadChunks(i, pages)
  \/ CloseViewer
  \/ ToggleViewMode
  \/ \E page \in 1..MaxRenderPage : RendererPageChange(page)
  \/ RendererError
  \/ ObserverStart
  \/ StaleObserverStart
  \/ \E t \in timers : FireRelease(t) \/ FirePageScroll(t) \/ FireModeText(t)
  \/ Tick

RendererSpec == Init /\ [][RendererNext]_vars

\* Scheduled callbacks run when they are due, deferred observer starts run,
\* and time does not stand still.
RendererFairSpec ==
  /\ RendererSpec
  /\ WF_vars(\E t \in timers : FireRelease(t) \/ FirePageScroll(t) \/ FireModeText(t))
  /\ WF_vars(ObserverStart)
  /\ WF_vars(StaleObserverStart)
  /\ SF_vars(Tick)

\* The navigation surfaces of the text view: documents, page controls, the
\* observers and the timers.
NavNext ==
  \/ SelectDocument(FALSE)
  \/ \E i \in 1..Len(loads), meta \in DocMetas : LoadMeta(i, meta)
  \/ \E i \in 1..Len(loads), pages \in DocPages : LoadChunks(i, pages)
  \/ \E i \in 1..Len(loads) : LoadFails(i)
  \/ CloseViewer
  \/ handlePreviousPage
  \/ handleNextPage
  \/ \E v \in 0..MaxTyped : TypePage(v)
  \/ ObserverStart
  \/ StaleObserverStart
  \/ \E chunk \in Range(chunks) : ObserverBatch(chunk) \/ StaleObserverBatch(chunk)
  \/ \E t \in timers : FireRelease(t) \/ FirePageScroll(t) \/ FireDebounce(t)
  \/ Tick

NavSpec == Init /\ [][NavNext]_vars

\* The search box of the text view: documents, the search session, the jump
\* to a match and its timers.
SearchDocMetas == {0, MaxTotal}

SearchDocPages == {<<>>, <<1>>, <<1, 2>>, <<0, 1>>}

SearchNext ==
  \/ SelectDocument(FALSE)
  \/ \E i \in 1..Len(loads), meta \in SearchDocMetas : LoadMeta(i, meta)
  \/ \E i \in 1..Len(loads), pages \in SearchDocPages : LoadChunks(i, pages)
  \/ CloseViewer
  \/ \E text \in Queries : TypeSearch(text)
  \/ handleSearchSubmit
  \/ ObserverStart
  \/ StaleObserverStart
  \/ \E t \in timers : \/ FireRelease(t)
                        \/ FirePageScroll(t)
                        \/ FireSearchScroll(t)
                        \/ FireSearchRetry(t)
  \/ Tick

SearchSpec == Init /\ [][SearchNext]_vars

\* The search jump in both view modes: one document, the view-mode button,
\* one query, and the timers of the jump and of the page-scroll effect.
JumpDocPages == {<<1, 2>>}

JumpQueries == {<<>>, <<"B">>}

JumpNext ==
  \/ SelectDocument(FALSE)
  \/ \E i \in 1..Len(loads) : LoadMeta(i, 0)
  \/ \E i \in 1..Len(loads), pages \in JumpDocPages : LoadChunks(i, pages)
  \/ ToggleViewMode
  \/ \E text \in JumpQueries : TypeSearch(text)
  \/ handleSearchSubmit
  \/ ObserverStart
  \/ StaleObserverStart
  \/ \E t \in timers : \/ FireRelease(t)
                        \/ FirePageScroll(t)
                        \/ FireSearchScroll(t)
                        \/ FireSearchRetry(t)
  \/ Tick

JumpSpec == Init /\ [][JumpNext]_vars

\* The match list and the jump to a match in the text view: documents with
\* trusted pages and documents whose pages are estimated, with and without a
\* declared total, and queries that differ in case and in surrounding blanks.
MatchDocMetas == {0, MaxTotal}

MatchDocPages == {<<1, 2>>, <<0, 0>>}

MatchQueries == {<<"B">>, <<" ", "b">>, <<"a", " ">>}

MatchNext ==
  \/ SelectDocument(FALSE)
  \/ \E i \in 1..Len(loads), meta \in MatchDocMetas : LoadMeta(i, meta)
  \/ \E i \in 1..Len(loads), pages \in MatchDocPages : LoadChunks(i, pages)
  \/ \E text \in MatchQueries : TypeSearch(text)
  \/ handleSearchSubmit
  \/ ObserverStart
  \/ StaleObserverStart
  \/ \E t \in timers : \/ FireRelease(t)
                        \/ FirePageScroll(t)
                        \/ FireSearchScroll(t)
                        \/ FireSearchRetry(t)
  \/ Tick

MatchSpec == Init /\ [][MatchNext]_vars

\* Document switches during a load: a store of two documents, each with a
\* record and chunks of its own, selections that do not wait for the load in
\* flight, and nothing that fails.
StoreTotal(doc) == IF doc = 1 THEN 2 ELSE 1

StorePages(doc) == IF doc = 1 THEN <<1, 2>> ELSE <<1>>

LoadNext ==
  \/ \E doc \in Docs :
       doc # selectedDocumentId /\ SelectDocumentOf(doc, FALSE, MaxOverlap)
  \/ \E i \in 1..Len(loads) : LoadMeta(i, StoreTotal(loads[i].doc))
  \/ \E i \in 1..Len(loads) : LoadChunks(i, StorePages(loads[i].doc))
  \/ CloseViewer
  \/ ObserverStart
  \/ StaleObserverStart
  \/ \E t \in timers : FireRelease(t) \/ FirePageScroll(t)
  \/ Tick

LoadSpec == Init /\ [][LoadNext]_vars

\* The search box during document switches: the same store and selections,
\* and the handlers of the search box, which need no timer to act.
SwitchQueries == {<<"a">>, <<"B">>}

SwitchSearchNext ==
  \/ \E doc \in Docs :
       doc # selectedDocumentId /\ SelectDocumentOf(doc, FALSE, MaxOverlap)
  \/ \E i \in 1..Len(loads) : LoadMeta(i, StoreTotal(loads[i].doc))
  \/ \E i \in 1..Len(loads) : LoadChunks(i, StorePages(loads[i].doc))
  \/ \E text \in SwitchQueries : TypeSearch(text)
  \/ handleSearchSubmit
  \/ ObserverStart
  \/ StaleObserverStart

SwitchSearchSpec == Init /\ [][SwitchSearchNext]_vars

(* ------------------------------------------------------------------ *)
(* The page index as a function of its inputs                          *)
(* ------------------------------------------------------------------ *)
EstChunkLists ==
  {MkChunks(ZeroPages(n)) : n \in 0..EstMaxChunks}
    \cup {MkChunks(ps) : ps \in SeqsUpTo(0..EstMaxMetaPage, EstMetaLen)}

\* The load of a viewer that holds no chunks yet: setDocumentTotalPages and
\* setChunks followed by the render that recomputes the memoised index.
EstLoad(cs, total) ==
  /\ chunks = <<>>
  /\ chunks' = cs
  /\ documentTotalPages' = total
  /\ chunksByPage' = ChunksByPage(cs, total)
  /\ UNCHANGED <<maxPdfPage, mounted, selectedDocumentId, hasUrl, isLoading, loads, pdfCurrentPage,
                 pdfViewerMode, suppressObserverRef, wheelCooldownRef, searchVars,
                 timers, observer, stale>>
  /\ Quiet

EstNext == \E cs \in EstChunkLists, total \in 0..EstMaxTotal : EstLoad(cs, total)

EstSpec == Init /\ [][EstNext]_vars

(* ------------------------------------------------------------------ *)
(* Properties of the page index                                        *)
(* ------------------------------------------------------------------ *)
\* The page under which the index holds the chunk with this id (0 if none).
GroupOf(id) == LookupPage(chunksByPage, id, 0)

Occurrences(c) ==
  {<<p, j>> \in (DOMAIN chunksByPage) \X (1..Len(chunks)) :
     j <= Len(chunksByPage[p]) /\ chunksByPage[p][j] = c}

\* C1: the page groups partition the loaded chunks: every loaded chunk occurs
\* exactly once in exactly one group, and every group member is a loaded chunk.
C1_GroupsPartitionChunks ==
  /\ \A k \in 1..Len(chunks) : Cardinality(Occurrences(chunks[k])) = 1
  /\ \A p \in DOMAIN chunksByPage :
       /\ Len(chunksByPage[p]) <= Len(chunks)
       /\ \A j \in 1..Len(chunksByPage[p]) : chunksByPage[p][j] \in Range(chunks)

C1_Witness ==
  /\ Cardinality(DOMAIN chunksByPage) >= 2
  /\ \E p \in DOMAIN chunksByPage : Len(chunksByPage[p]) >= 2

\* C5: every page group key is at least 1, whatever the chunk list and the
\* declared total.
C5_EveryPageAtLeastOne == \A p \in DOMAIN chunksByPage : p >= 1

\* C6: when some chunk carries a nonzero page every chunk is grouped under its
\* own stored page; a chunk is grouped under another page only when every
\* chunk's page is zero.
C6_AllOrNothing ==
  /\ (\E k \in 1..Len(chunks) : chunks[k].page # 0)
       => \A k \in 1..Len(chunks) : GroupOf(chunks[k].id) = chunks[k].page
  /\ \A p \in DOMAIN chunksByPage : \A j \in 1..Len(chunksByPage[p]) :
       chunksByPage[p][j].page # p => AllPagesZero(chunks)

C6_Witness ==
  /\ Len(chunks) >= 3
  /\ \E k \in 1..Len(chunks) : chunks[k].page # 0
  /\ \E k \in 1..Len(chunks) :
       chunks[k].page = 0 /\ GroupOf(chunks[k].id) = 0

\* C7: with no page metadata the estimated page never decreases along the
\* chunk order, and lies in 1..totalPages when the total is declared.
C7_EstimateMonotoneAndBounded ==
  AllPagesZero(chunks) =>
    /\ \A i, j \in 1..Len(chunks) : i < j => GroupOf(i) <= GroupOf(j)
    /\ documentTotalPages > 0 =>
         \A i \in 1..Len(chunks) : GroupOf(i) >= 1 /\ GroupOf(i) <= documentTotalPages

C7_Witness ==
  /\ AllPagesZero(chunks)
  /\ documentTotalPages = 2
  /\ Len(chunks) = EstMaxChunks
  /\ GroupOf(1) = 1
  /\ GroupOf(Len(chunks)) = 2

C9_FixedDensityEstimate ==
  (AllPagesZero(chunks) /\ documentTotalPages = 0) =>
    /\ \A i \in 0..(Len(chunks) - 1) : GroupOf(i + 1) = i \div 3 + 1
    /\ Len(chunks) = 7 =>
         [k \in 1..7 |-> GroupOf(k)] = <<1, 1, 1, 2, 2, 2, 3>>

C9_Witness ==
  /\ AllPagesZero(chunks)
  /\ Len(chunks) = 7
  /\ documentTotalPages = 0
  /\ DOMAIN chunksByPage = 1..3

(* ------------------------------------------------------------------ *)
(* Properties of the shared page and the suppression flag              *)
(* ------------------------------------------------------------------ *)
\* The viewer shows a document whose chunks are loaded.
DocumentLoaded == mounted /\ ~isLoading /\ Len(chunks) > 0

LargestGroupKey == SetMax(DOMAIN chunksByPage)

\* C2: with a document loaded the current page lies between 1 and the greater
\* of totalPages and the largest page-group key.
C2_CurrentPageWithinBounds ==
  DocumentLoaded =>
    /\ pdfCurrentPage >= 1
    /\ pdfCurrentPage <= Max(totalPages, LargestGroupKey)

\* Steps of the observers
BatchStep == \E chunk \in Range(chunks) : ObserverBatch(chunk) \/ StaleObserverBatch(chunk)

StaleBatchStep == \E chunk \in Range(chunks) : StaleObserverBatch(chunk)

DebounceStep == \E t \in timers : FireDebounce(t)

ReleaseStep == \E t \in timers : FireRelease(t)

RequestPending(page) ==
  \E t \in timers' : t.kind = "debounce" /\ t.arg = page /\ t.left = Ticks(debounceMs)

C4_NoViewportChangeWhileSuppressed ==
  [][(DebounceStep /\ suppressObserverRef) => pdfCurrentPage' = pdfCurrentPage]_vars

NonEmptyPages == {p \in DOMAIN chunksByPage : p >= 1 /\ HasChunks(chunksByPage, p)}

PagesAhead == {p \in NonEmptyPages : p > pdfCurrentPage}

PagesBehind == {p \in NonEmptyPages : p < pdfCurrentPage}

\* C11: a previous/next click that changes the page applies the nearest page
\* with chunks in its direction; it applies a page without chunks only when
\* neither that direction nor the current page has a page with chunks.
C11_NavigationSkipsEmptyPages ==
  [][ /\ handleNextPage =>
           IF PagesAhead # {}
           THEN pdfCurrentPage' = CHOOSE p \in PagesAhead : \A q \in PagesAhead : p <= q
           ELSE ~HasChunks(chunksByPage, pdfCurrentPage)
      /\ handlePreviousPage =>
           IF PagesBehind # {}
           THEN pdfCurrentPage' = SetMax(PagesBehind)
           ELSE ~HasChunks(chunksByPage, pdfCurrentPage)
    ]_vars

\* A click on an enabled previous or next button, and a wheel move that pages,
\* always computes a target other than the current page: the target of
\* previous lies below the current page and the target of next above it, so
\* the early return of the handlers is not taken.
EnabledNavigationMoves ==
  ControlsShown =>
    /\ pdfCurrentPage > 1 => PreviousTarget < pdfCurrentPage
    /\ pdfCurrentPage < totalPages => NextTarget > pdfCurrentPage

(* ------------------------------------------------------------------ *)
(* Properties of the search session                                    *)
(* ------------------------------------------------------------------ *)
\* The chunks whose lower-cased text contains the query, in list order.
ChunksContaining(q) ==
  SelectSeq(chunks, LAMBDA c :
    \E k \in 0..(Len(c.content) - Len(q)) :
      ToLower(SubSeq(c.content, k + 1, k + Len(q))) = q)

\* C12: a submission whose query differs from the last executed one stores
\* the recomputed match list and puts the cursor on the first match; a
\* submission of the unchanged query keeps the list and the last query and
\* moves the cursor one match on, cyclically.
C12_NewQueryResetsSameQueryAdvances ==
  [][ handleSearchSubmit =>
        IF SubmitQuery # lastSearchQuery
        THEN /\ searchResults' = ChunksContaining(SubmitQuery)
             /\ currentSearchIndex' = 0
             /\ lastSearchQuery' = SubmitQuery
        ELSE /\ searchResults' = searchResults
             /\ lastSearchQuery' = lastSearchQuery
             /\ Len(searchResults) > 0
             /\ currentSearchIndex' = (currentSearchIndex + 1) % Len(searchResults)
             /\ (Len(searchResults) >= 2 /\ currentSearchIndex < Len(searchResults) - 1)
                  => currentSearchIndex' # 0
    ]_vars

\* The same query was submitted again and the cursor moved off the first of
\* two matches.
C12_Witness ==
  /\ Len(searchResults) = 2
  /\ currentSearchIndex = 1
  /\ lastSearchQuery = SubmitQuery

\* With matches stored the cursor designates one of them.
CursorInRange ==
  Len(searchResults) >= 1 =>
    (currentSearchIndex >= 0 /\ currentSearchIndex < Len(searchResults))

\* C13: with n >= 1 matches every repeated submission of the query moves the
\* cursor from c to (c + 1) mod n and jumps to the match under the new cursor:
\* its page is requested, the flag is set and the scroll to that chunk is
\* scheduled; the cursor always designates a match.
C13_RepeatedSubmitAdvancesCyclically ==
  [][ /\ CursorInRange'
      /\ (handleSearchSubmit /\ SubmitQuery = lastSearchQuery /\ Len(searchResults) >= 1) =>
           LET n == Len(searchResults)
               c == IF currentSearchIndex + 1 = n THEN 0 ELSE currentSearchIndex + 1
               match == searchResults[c + 1]
           IN /\ currentSearchIndex' = c
              /\ suppressObserverRef'
              /\ [kind |-> "search", left |-> Ticks(searchScrollDelayMs), arg |-> match.id]
                   \in timers'
              /\ \A p \in DOMAIN chunksByPage :
                   match \in Range(chunksByPage[p]) => pdfCurrentPage' = p
    ]_vars

\* The cursor has wrapped from the last of two matches to the first, and the
\* jump to the first match is scheduled.
C13_Witness ==
  /\ Len(searchResults) = 2
  /\ currentSearchIndex = 0
  /\ \E t \in timers : t.kind = "search" /\ t.arg = searchResults[1].id
  /\ \E t \in timers : t.kind = "search" /\ t.arg = searchResults[2].id
                          /\ t.left < Ticks(searchScrollDelayMs)

\* The step changes neither the page nor the flag and schedules nothing.
NoNavigation ==
  /\ pdfCurrentPage' = pdfCurrentPage
  /\ suppressObserverRef' = suppressObserverRef
  /\ timers' = timers
  /\ UNCHANGED <<observer, stale>>

\* No loaded chunk contains the query.
NoChunkContains(q) ==
  \A j \in 1..Len(chunks) : \A k \in 0..(Len(chunks[j].content) - Len(q)) :
    ToLower(SubSeq(chunks[j].content, k + 1, k + Len(q))) # q

\* C14: the submission of a new query that no chunk contains stores an empty
\* match list and navigates nowhere; while the stored list is empty a
\* submission of the unchanged query cannot navigate either.
C14_NoMatchNoNavigation ==
  [][ /\ (handleSearchSubmit /\ SubmitQuery # lastSearchQuery
             /\ NoChunkContains(SubmitQuery))
           => (NoNavigation /\ searchResults' = <<>> /\ lastSearchQuery' = SubmitQuery)
      /\ (handleSearchSubmit /\ ~NoNavigation) => Len(searchResults') >= 1
    ]_vars

\* A query that no chunk of the loaded document contains has been executed.
C14_Witness ==
  /\ DocumentLoaded
  /\ lastSearchQuery # <<>>
  /\ lastSearchQuery = SubmitQuery
  /\ NoChunkContains(lastSearchQuery)
  /\ searchResults = <<>>
  /\ currentSearchIndex = 0

\* C15: when the text of the search box becomes empty or blank the session is
\* reset (no matches, cursor -1, no last query) while the page, the flag and
\* the timers stay as they are; the next submission, finding no last query,
\* runs as a new search.
C15_ClearedQueryResetsSession ==
  [][ /\ (mounted' /\ searchText' # searchText /\ Trim(searchText') = <<>>) =>
           /\ searchResults' = <<>>
           /\ currentSearchIndex' = -1
           /\ lastSearchQuery' = <<>>
           /\ NoNavigation
      /\ (handleSearchSubmit /\ lastSearchQuery = <<>>) =>
           /\ searchResults' = ChunksContaining(SubmitQuery)
           /\ currentSearchIndex' = 0
           /\ lastSearchQuery' = SubmitQuery
    ]_vars

\* A search was executed and the box was then blanked: the session is reset
\* while the jump of the search is still under way.
C15_Witness ==
  /\ searchText = <<" ">>
  /\ lastSearchQuery = <<>>
  /\ searchResults = <<>>
  /\ suppressObserverRef
  /\ \E t \in timers : t.kind = "search"

(* ------------------------------------------------------------------ *)
(* Claims about the external viewer window                             *)
(* ------------------------------------------------------------------ *)
\* the stored reference designates a window that is open
RefLive == pdfViewerWindowRef # 0 /\ pdfViewerWindowRef = liveWindow

\* C16: a reference click that arrives while the stored reference designates
\* an open window opens nothing: its window calls are exactly one changePage
\* message for the requested page to that window followed by a focus of it,
\* and the window and the reference stay as they are.
C16_LiveWindowGetsOneMessageAndFocus ==
  [][\A page \in 1..MaxRefPage, ok \in BOOLEAN, confirmOpen \in BOOLEAN :
       (RefLive /\ handleReferenceClick(page, ok, confirmOpen))
         => /\ calls' = <<PostCall(liveWindow, page), FocusCall(liveWindow)>>
            /\ liveWindow' = liveWindow
            /\ opened' = opened
            /\ pdfViewerWindowRef' = pdfViewerWindowRef]_vars

\* a click for page 2 was forwarded to the window opened by an earlier click
C16_Witness ==
  /\ RefLive
  /\ opened = 1
  /\ calls = <<PostCall(liveWindow, 2), FocusCall(liveWindow)>>

\* C17: once a window has been opened and no viewer window is open any more,
\* a reference click makes exactly one window.open call and nothing else,
\* whether the stored reference still holds the closed window or has been
\* cleared; the window it returns is a new one, becomes the stored
\* reference and gets a liveness poll.
C17_RequestAfterCloseOpensOneWindow ==
  [][\A page \in 1..MaxRefPage, ok \in BOOLEAN, confirmOpen \in BOOLEAN :
       (liveWindow = 0 /\ opened > 0 /\ handleReferenceClick(page, ok, confirmOpen))
         => IF ok
            THEN /\ calls' = <<OpenCall(opened + 1, page)>>
                 /\ opened' = opened + 1
                 /\ liveWindow' = opened + 1
                 /\ pdfViewerWindowRef' = opened + 1
                 /\ (opened + 1) \in polls'
            ELSE /\ calls' = <<OpenCall(0, page)>>
                 /\ liveWindow' = 0]_vars

\* the second window was opened by a click made while the poll of the closed
\* first window had not run yet
C17_Witness ==
  /\ opened = 2
  /\ liveWindow = 2
  /\ pdfViewerWindowRef = 2
  /\ polls = {1, 2}
  /\ calls = <<OpenCall(2, 1)>>

\* C18: at most one viewer window is open (they all carry the window name
\* 'pdfViewer', so liveWindow is the only one), and whenever one is open the
\* stored reference designates it.
C18_StoredReferenceDesignatesLiveWindow ==
  liveWindow # 0 => pdfViewerWindowRef = liveWindow

\* C19: every step that changes the current page while a viewer window is
\* open posts exactly one changePage message carrying the new page to that
\* window.
C19_PageChangeForwardedToOpenWindow ==
  [][(pdfCurrentPage' # pdfCurrentPage /\ liveWindow # 0)
       => calls' = <<PostCall(liveWindow, pdfCurrentPage')>>]_vars

\* the stored reference holds a window that has been closed
RefClosed == pdfViewerWindowRef # 0 /\ pdfViewerWindowRef # liveWindow

\* C20: every changePage message is posted to the window that is open at the
\* moment of the send, never to a closed one; and a stored reference to a
\* closed window does not stay: it is cleared by the poll or replaced by the
\* window of the next request (or the application itself is replaced by the
\* viewer page).
C20_NoSendToClosedWindowAndClosedReferenceCleared ==
  /\ [][\A i \in 1..Len(calls') :
          calls'[i].op = "post" => (liveWindow # 0 /\ calls'[i].win = liveWindow)]_vars
  /\ (RefClosed ~> (~RefClosed \/ appReplaced))

\* window 1 was stored, received a message, was closed by the user, and its
\* poll has cleared the reference and stopped
C20_Witness ==
  /\ opened = 1
  /\ liveWindow = 0
  /\ graceChecks = {1}
  /\ polls = {}
  /\ pdfViewerWindowRef = 0

\* what a failed window.open leaves behind: one open call that returned no
\* window, the reference, the polls and the viewer as they were, and the
\* application page replaced exactly when the user confirmed
OpenFailed(page, confirmOpen) ==
  /\ calls' = <<OpenCall(0, page)>>
  /\ pdfViewerWindowRef' = pdfViewerWindowRef
  /\ polls' = polls
  /\ graceChecks' = graceChecks
  /\ liveWindow' = liveWindow
  /\ opened' = opened
  /\ appReplaced' = confirmOpen
  /\ pdfCurrentPage' = pdfCurrentPage
  /\ UNCHANGED viewerVars

\* C21: when window.open returns no window, in a reference click as in a click
\* on the view-mode button, no reference is stored (an empty reference stays
\* empty) and no poll is started; the user is asked, the application page is
\* replaced by the viewer on confirmation and nothing changes on refusal; the
\* current page is unchanged either way.
C21_OpenFailureOffersInPlaceNavigation ==
  [][\A confirmOpen \in BOOLEAN :
       /\ \A page \in 1..MaxRefPage :
            (~RefLive /\ handleReferenceClick(page, FALSE, confirmOpen))
              => OpenFailed(page, confirmOpen)
       /\ OpenViewerFromToggle(FALSE, confirmOpen)
            => OpenFailed(pdfCurrentPage, confirmOpen)]_vars

\* a blocked reference click for page 2 was confirmed: the viewer replaces the
\* application, no reference and no poll exist
C21_Witness ==
  /\ appReplaced
  /\ calls = <<OpenCall(0, 2)>>
  /\ pdfViewerWindowRef = 0
  /\ polls = {}
  /\ pdfCurrentPage = 1

(* ------------------------------------------------------------------ *)
(* Claims about the embedded renderer                                  *)
(* ------------------------------------------------------------------ *)
\* a fallback scheduled by a renderer error is pending
FallbackPending == \E t \in timers : t.kind = "modeText"

\* C22: a reported renderer error changes neither the current page nor, at
\* once, the surface; its delayed fallback sets the text view and leaves the
\* current page alone; and whenever a fallback is pending the text view
\* eventually is the active surface.
C22_RendererErrorFallsBackToText ==
  /\ [][/\ RendererError
            => (pdfCurrentPage' = pdfCurrentPage /\ pdfViewerMode' = pdfViewerMode)
         /\ \A t \in timers :
              FireModeText(t)
                => (pdfCurrentPage' = pdfCurrentPage /\ pdfViewerMode' = "text")]_vars
  /\ (FallbackPending ~> pdfViewerMode = "text")

\* the embedded renderer had moved to page 3 and reported errors; the text
\* view is the active surface again, the page is still 3, and the fallback
\* of a later error is still to come
C22_Witness ==
  /\ mounted /\ hasUrl /\ ~isLoading
  /\ pdfViewerMode = "text"
  /\ pdfCurrentPage = 3
  /\ FallbackPending

(* ------------------------------------------------------------------ *)
(* Claims about document switches                                      *)
(* ------------------------------------------------------------------ *)
\* C23: the selection of a document leaves the search session empty (no
\* matches, cursor -1, no last executed query) and the current page at 1,
\* whatever the page and the session of the document shown before.
C23_DocumentSwitchResetsSearchAndPage ==
  [][\A url \in BOOLEAN :
       SelectDocument(url)
         => /\ searchResults' = <<>>
            /\ currentSearchIndex' = -1
            /\ lastSearchQuery' = <<>>
            /\ pdfCurrentPage' = 1]_vars

\* a document is being loaded over one in which a search had just jumped to
\* the match on page 2 (its scroll is still pending): the session is empty
\* and the page is 1
C23_Witness ==
  /\ mounted /\ isLoading
  /\ \E t \in timers : /\ t.kind = "search"
                        /\ LookupPage(chunksByPage, t.arg, 1) = 2
  /\ searchResults = <<>>
  /\ currentSearchIndex = -1
  /\ lastSearchQuery = <<>>
  /\ pdfCurrentPage = 1

\* C24: while the viewer is closed, or a newly selected document is still
\* being loaded, no timer callback changes the suppression flag or the
\* current page: the timers pending then were scheduled for the document
\* shown before.
C24_NoTimerActsAfterDocumentSwitch ==
  [][\A t \in timers :
       ((~mounted \/ isLoading)
          /\ (FireRelease(t) \/ FirePageScroll(t) \/ FireDebounce(t)))
         => /\ suppressObserverRef' = suppressObserverRef
            /\ pdfCurrentPage' = pdfCurrentPage]_vars

\* C25: when a load learns a declared total greater than 0, the page index is
\* the grouping of the chunks held at that moment under that total, the
\* bound of the page controls is that total, and a current page above the
\* total is brought down to it.
C25_DeclaredTotalCorrectsBoundAndClampsPage ==
  [][\A i \in 1..Len(loads), meta \in 1..MaxTotal :
       LoadMeta(i, meta)
         => /\ chunksByPage' = ChunksByPage(chunks, meta)
            /\ TotalPagesOf(documentTotalPages', maxPdfPage', chunksByPage') = meta
            /\ pdfCurrentPage' = Min(pdfCurrentPage, meta)]_vars

(* ------------------------------------------------------------------ *)
(* Claims about the suppression flag                                   *)
(* ------------------------------------------------------------------ *)
\* nothing is scheduled: no timer is pending and no load is in flight
Quiescent == timers = {} /\ loads = <<>>

\* C26: a suppression flag that was set is cleared again once the scheduled
\* timers have fired: when no timer is pending and no load is in flight, so
\* that nothing more will run without a new user action, the flag is false.
C26_SuppressionFlagReleased ==
  Quiescent => ~suppressObserverRef

\* the cooldown of a programmatic move is still running besides timer t: its
\* release, or the page-scroll callback that schedules one, is pending
OtherCooldownRunning(t) ==
  \E u \in timers \ {t} : u.kind \in {"release", "effect50"}

\* C27: the flag is cleared only when the cooldown of the latest programmatic
\* move has elapsed: no release callback clears it while the cooldown of
\* another move is still running.
C27_FlagHeldUntilLastCooldownEnds ==
  [][\A t \in timers :
       (suppressObserverRef /\ FireRelease(t)) => ~OtherCooldownRunning(t)]_vars

(* ------------------------------------------------------------------ *)
(* Claims about viewport-driven page changes                           *)
(* ------------------------------------------------------------------ *)
\* C28: a debounced observer request that changes the current page leaves the
\* suppression flag as it was and schedules no scroll of the text panel.
C28_ViewportChangeDoesNotScrollOrSuppress ==
  [][\A t \in timers :
       (FireDebounce(t) /\ pdfCurrentPage' # pdfCurrentPage)
         => /\ suppressObserverRef' = suppressObserverRef
            /\ timers' \subseteq timers]_vars

\* the debounced requests that are pending
PendingRequests == {t \in timers : t.kind = "debounce"}

\* the page under which the index holds the chunk, as the displayed page sees it
ShownPageOf(chunk) == LookupPage(chunksByPage, chunk.id, pdfCurrentPage)

\* C29: at most one debounced request is pending at any time; after a batch
\* whose most visible chunk lies on another page than the displayed one the
\* pending request carries that chunk's page; after a batch whose most
\* visible chunk lies on the displayed page no request is pending.
C29_BurstIssuesAtMostOneRequestForLatestPage ==
  /\ [](Cardinality(PendingRequests) <= 1)
  /\ [][\A chunk \in Range(chunks) :
          (ObserverBatch(chunk) \/ StaleObserverBatch(chunk))
            => IF ShownPageOf(chunk) = pdfCurrentPage
               THEN \A t \in timers' : t.kind # "debounce"
               ELSE \A t \in timers' :
                      t.kind = "debounce" => t.arg = ShownPageOf(chunk)]_vars

\* C30: an observer request is issued (the debounced callback calls
\* onPdfPageChange) only while the text view is the active surface and the
\* chunk set is not empty, and only for a page that holds a chunk of the
\* chunk set and grouping in force at that moment.
C30_NoRequestOutsideObservation ==
  [][\A t \in timers :
       FireDebounce(t)
         => /\ pdfViewerMode = "text"
            /\ Len(chunks) > 0
            /\ HasChunks(chunksByPage, t.arg)]_vars
(* ------------------------------------------------------------------ *)
(* Claims about the search jump and the match list                     *)
(* ------------------------------------------------------------------ *)
\* the submission jumps to a match: a new query with at least one match, or
\* the unchanged query with a stored match list
SubmitNavigates ==
  IF SubmitQuery # lastSearchQuery
  THEN Len(ChunksContaining(SubmitQuery)) > 0
  ELSE Len(searchResults) > 0

\* the match the submission jumps to
SubmitTarget ==
  IF SubmitQuery # lastSearchQuery
  THEN ChunksContaining(SubmitQuery)[1]
  ELSE searchResults[((currentSearchIndex + 1) % Len(searchResults)) + 1]

\* C31: every submission that jumps to a match leaves the current page at the
\* key of the page group that holds the matched chunk, for chunks grouped by
\* their stored page and for chunks grouped by an estimate alike.
C31_SearchJumpRequestsPageOfMatch ==
  [][(handleSearchSubmit /\ SubmitNavigates)
       => \E p \in DOMAIN chunksByPage' :
            /\ SubmitTarget \in Range(chunksByPage'[p])
            /\ pdfCurrentPage' = p]_vars

\* the text without its leading and trailing blanks
Stripped(str) ==
  LET inked == {k \in 1..Len(str) : str[k] # " "}
  IN IF inked = {} THEN <<>>
     ELSE SubSeq(str, CHOOSE k \in inked : \A j \in inked : k <= j, SetMax(inked))

\* two letters that differ at most in case
SameLetter(c, d) ==
  \/ c = d
  \/ {c, d} = {"A", "a"}
  \/ {c, d} = {"B", "b"}

\* two strings that differ at most in letter case
SameIgnoringCase(a, b) ==
  Len(a) = Len(b) /\ \A k \in 1..Len(a) : SameLetter(a[k], b[k])

\* the text contains the word at some position, letter case aside
ContainsIgnoringCase(text, word) ==
  \E k \in 0..(Len(text) - Len(word)) :
    SameIgnoringCase(SubSeq(text, k + 1, k + Len(word)), word)

\* the text of the search box and the last executed query differ at most in
\* letter case and surrounding blanks
SameAsLastQuery == SameIgnoringCase(Stripped(searchText), Stripped(lastSearchQuery))

\* C32: the submission of a query that differs from the last executed one in
\* more than letter case and surrounding blanks stores as match list exactly
\* the chunks whose content contains the trimmed query, letter case aside, in
\* the order of the chunk list; the submission of a query that differs from the
\* last executed one only in letter case or surrounding blanks is not a new
\* search: the match list stays and the cursor moves one match on.
C32_MatchListIsCaseInsensitiveSubstringFilter ==
  [][handleSearchSubmit =>
       IF SameAsLastQuery
       THEN /\ searchResults' = searchResults
            /\ Len(searchResults) > 0
            /\ currentSearchIndex' = (currentSearchIndex + 1) % Len(searchResults)
       ELSE /\ searchResults' =
                 SelectSeq(chunks, LAMBDA c :
                   ContainsIgnoringCase(c.content, Stripped(searchText)))
            /\ currentSearchIndex' = 0]_vars

\* "B" was searched and found in the second chunk only; then " b" was typed
\* and submitted, which moved on within the one-element match list
C32_Witness ==
  /\ Len(chunks) = 2
  /\ searchText = <<" ", "b">>
  /\ lastSearchQuery = <<"b">>
  /\ searchResults = <<chunks[2]>>
  /\ currentSearchIndex = 0
  /\ \E t, u \in timers :
       /\ t.kind = "search" /\ u.kind = "search"
       /\ t.left = Ticks(searchScrollDelayMs)
       /\ u.left < t.left
(* ------------------------------------------------------------------ *)
(* Claims about callbacks that outlive what they were started for      *)
(* ------------------------------------------------------------------ *)
\* C33: a tick of the liveness poll of window w, or the check that follows a
\* send to window w, leaves the stored reference alone while the reference
\* designates another window that is open.
C33_StaleCheckKeepsReferenceOfLiveWindow ==
  [][\A w \in 1..MaxWindows :
       (RefLive /\ pdfViewerWindowRef # w /\ (checkClosed(w) \/ GraceCheck(w)))
         => pdfViewerWindowRef' = pdfViewerWindowRef]_vars
\* the disconnected observer is observing chunk elements
StaleObserving == stale.st = "on"

\* C34: the deferred start of an observer that has been disconnected does not
\* make it observe; a disconnected observer schedules no page-change request;
\* and the observer of the latest effect run and a disconnected one never
\* observe at the same time.
C34_DisconnectedObserverStaysSilent ==
  /\ [][/\ StaleObserverStart => ~StaleObserving'
         /\ \A chunk \in Range(chunks) :
              StaleObserverBatch(chunk) => PendingRequests' \subseteq PendingRequests]_vars
  /\ [](~(observer = "on" /\ StaleObserving))
(* ------------------------------------------------------------------ *)
(* Claims about loads                                                  *)
(* ------------------------------------------------------------------ *)
\* every load that was started has settled
LoadsSettled == mounted /\ loads = <<>>

\* C35: once every load has settled the viewer holds the chunk list and the
\* declared total of the selected document, also when that document was
\* selected while the load of another one was in flight and whichever of
\* the two loads settled first.
C35_SettledLoadsShowSelectedDocument ==
  LoadsSettled =>
    /\ chunks = MkChunks(StorePages(selectedDocumentId))
    /\ documentTotalPages = StoreTotal(selectedDocumentId)
\* the declared total of a document whose record answers meta: none when the
\* record is missing (-1) or declares no total
DeclaredTotal(meta) == IF meta > 0 THEN meta ELSE 0

\* the largest page of an index, 0 for an empty one
LargestKeyOrZero(grouped) ==
  IF DOMAIN grouped = {} THEN 0 ELSE SetMax(DOMAIN grouped)

\* the largest page the viewer is to hold after the step: that of the new
\* index, or the declared total when the index is empty
LargestPageAfter ==
  IF LargestKeyOrZero(chunksByPage') > 0
  THEN LargestKeyOrZero(chunksByPage')
  ELSE documentTotalPages'

\* C36: the load of a document leaves as declared total that of the document
\* being loaded, 0 when its record is missing or cannot be fetched, and as
\* largest page that of the new index, or the declared total when the index
\* is empty; neither value is taken over from the document shown before.
C36_TotalAndMaxPageOfSelectedDocument ==
  [][/\ \A i \in 1..Len(loads), meta \in DocMetas :
          LoadMeta(i, meta) => documentTotalPages' = DeclaredTotal(meta)
     /\ \A i \in 1..Len(loads) :
          (loads[i].stage = "meta" /\ LoadFails(i)) => documentTotalPages' = 0
     /\ \A i \in 1..Len(loads) :
          LoadFails(i) => maxPdfPage' = LargestPageAfter
     /\ \A i \in 1..Len(loads), pages \in DocPages :
          LoadChunks(i, pages)
            => /\ documentTotalPages' = documentTotalPages
               /\ maxPdfPage' = LargestPageAfter]_vars
(* ------------------------------------------------------------------ *)
(* Claims about the text panel                                         *)
(* ------------------------------------------------------------------ *)
\* the ids of the chunk elements in the text panel
PanelElements == {id \in 1..Len(chunks) : ElementPresent(id)}

\* C38: every chunk element in the text panel belongs to the page group of
\* the current page, and a batch delivered to the observer of the latest
\* effect run, whichever element it reports, schedules no page-change request.
C38_PanelShowsOnlyCurrentPage ==
  /\ [](\A id \in PanelElements : GroupOf(id) = pdfCurrentPage)
  /\ [][\A chunk \in Range(chunks) :
          ObserverBatch(chunk) => PendingRequests' \subseteq PendingRequests]_vars

\* the observer of the latest effect run observes the panel of page 2 of a
\* document that also has a chunk on page 1; the flag is clear, so a batch
\* is looked at, and no request is pending
C38_Witness ==
  /\ observer = "on"
  /\ ~suppressObserverRef
  /\ pdfCurrentPage = 2
  /\ PanelElements # {}
  /\ HasChunks(chunksByPage, 1)
  /\ PendingRequests = {}
====
